---- MODULE Spec2Model ----
(***************************************************************************)
(* Model of the playlist watch-time aggregator                             *)
(* (src/yt-playlist-watchtime/src/app/api/playlist-info/route.ts).         *)
(*                                                                         *)
(* Conventions                                                             *)
(*  - A JavaScript string is a sequence of one-character strings:          *)
(*    "PT5S" is <<"P","T","5","S">>.                                       *)
(*  - A nullable value (T | null | undefined) is a sequence of length 0    *)
(*    or 1: Null is <<>>, Some(v) is <<v>>.                                *)
(*  - A JavaScript number is the exact rational <<n, d>> (n/d, d > 0).     *)
(***************************************************************************)
EXTENDS Integers, Sequences, FiniteSets, TLC

VARIABLES
    fn,        \* the helper under test in the helper specifications ("none" in Spec)
    arg,       \* its input: the structured case and the string handed to the helper
    result,    \* Null before the call, Some(returned value) after
    apiKey,          \* process.env.YOUTUBE_API_KEY is set
    body,            \* the request body
    pc,              \* where POST stands: the await it is suspended at, or "done"
    playlistDetails, \* route.ts 96
    videoIds,        \* route.ts 127
    nextPageToken,   \* route.ts 128
    promises,        \* videoDetailsPromises, route.ts 166, with how each settled
    totalSeconds,    \* route.ts 165
    averageSeconds,  \* route.ts 192
    response,        \* the NextResponse returned, Null until then
    calls,           \* the calls made to the catalog service, in order
    pagesServed,     \* the membership pages the service has returned, in order
    settled,         \* the reply of the service delivered last
    home,            \* the state of Home: playlistUrl, loading, results, error (page.tsx 103-106)
    run              \* where handleSubmit stands, and the response it holds

helperVars == <<fn, arg, result>>

postVars == <<apiKey, body, pc, playlistDetails, videoIds, nextPageToken, promises,
              totalSeconds, averageSeconds, response, calls, pagesServed, settled>>

clientVars == <<home, run>>

vars == <<helperVars, postVars, clientVars>>

----------------------------------------------------------------------------
(* Values                                                                  *)

Null == <<>>

Some(v) == <<v>>

IsNull(o) == o = <<>>

Value(o) == o[1]

DigitChars == <<"0", "1", "2", "3", "4", "5", "6", "7", "8", "9">>

\* \d of the regular expressions.
IsDigit(c) == \E i \in 1..10 : DigitChars[i] = c

DigitValue(c) == (CHOOSE i \in 1..10 : DigitChars[i] = c) - 1

LowerChars ==
    {"a", "b", "c", "d", "e", "f", "g", "h", "i", "j", "k", "l", "m",
     "n", "o", "p", "q", "r", "s", "t", "u", "v", "w", "x", "y", "z"}

UpperChars ==
    {"A", "B", "C", "D", "E", "F", "G", "H", "I", "J", "K", "L", "M",
     "N", "O", "P", "Q", "R", "S", "T", "U", "V", "W", "X", "Y", "Z"}

----------------------------------------------------------------------------
(* formatDuration, route.ts 35-45                                          *)

RECURSIVE String(_)
\* String(n) of a non-negative integer: its decimal digits.
String(n) ==
    IF n < 10 THEN <<DigitChars[n + 1]>>
    ELSE String(n \div 10) \o <<DigitChars[(n % 10) + 1]>>

RECURSIVE padStart(_, _, _)
\* s.padStart(targetLength, c)
padStart(s, targetLength, c) ==
    IF Len(s) >= targetLength THEN s
    ELSE padStart(<<c>> \o s, targetLength, c)

\* Math.floor(x / k) for x = n/d.
FloorDiv(x, k) == x[1] \div (x[2] * k)

\* x % k for x = n/d (x >= 0), again a rational with denominator d.
ModQ(x, k) == <<x[1] % (x[2] * k), x[2]>>

\* The parameter totalSeconds of the source is secs here.
\* Variant: the minutes padded to two digits whether or not there are hours.
formatDurationPadsMinutes(secs) ==
    LET hours      == FloorDiv(secs, 3600)
        minutes    == FloorDiv(ModQ(secs, 3600), 60)
        seconds    == FloorDiv(ModQ(secs, 60), 1)
        hoursStr   == IF hours > 0 THEN String(hours) \o <<":">> ELSE <<>>
        minutesStr == padStart(String(minutes), 2, "0")
        secondsStr == padStart(String(seconds), 2, "0")
    IN  hoursStr \o minutesStr \o <<":">> \o secondsStr

\* Variant: the minutes taken of the whole duration, the hours not removed.
formatDurationWholeMinutes(secs) ==
    LET hours      == FloorDiv(secs, 3600)
        minutes    == FloorDiv(secs, 60)
        seconds    == FloorDiv(ModQ(secs, 60), 1)
        hoursStr   == IF hours > 0 THEN String(hours) \o <<":">> ELSE <<>>
        minutesStr == padStart(String(minutes), IF hours > 0 THEN 2 ELSE 1, "0")
        secondsStr == padStart(String(seconds), 2, "0")
    IN  hoursStr \o minutesStr \o <<":">> \o secondsStr

\* Variant: the seconds rounded to the nearest whole second, not floored.
formatDurationRoundsSeconds(secs) ==
    LET hours      == FloorDiv(secs, 3600)
        minutes    == FloorDiv(ModQ(secs, 3600), 60)
        seconds    == (2 * ModQ(secs, 60)[1] + secs[2]) \div (2 * secs[2])
        hoursStr   == IF hours > 0 THEN String(hours) \o <<":">> ELSE <<>>
        minutesStr == padStart(String(minutes), IF hours > 0 THEN 2 ELSE 1, "0")
        secondsStr == padStart(String(seconds), 2, "0")
    IN  hoursStr \o minutesStr \o <<":">> \o secondsStr

formatDuration(secs) ==
    LET hours      == FloorDiv(secs, 3600)
        minutes    == FloorDiv(ModQ(secs, 3600), 60)
        seconds    == FloorDiv(ModQ(secs, 60), 1)
        hoursStr   == IF hours > 0 THEN String(hours) \o <<":">> ELSE <<>>
        minutesStr == padStart(String(minutes), IF hours > 0 THEN 2 ELSE 1, "0")
        secondsStr == padStart(String(seconds), 2, "0")
    IN  hoursStr \o minutesStr \o <<":">> \o secondsStr

----------------------------------------------------------------------------
(* parseISO8601Duration, route.ts 49-74                                    *)

RECURSIVE parseInt(_)
\* parseInt(s, 10) of a non-empty digit string.
parseInt(s) ==
    IF Len(s) = 1 THEN DigitValue(s[1])
    ELSE parseInt(SubSeq(s, 1, Len(s) - 1)) * 10 + DigitValue(s[Len(s)])

\* Positions at which the literal "PT" of the pattern occurs in s.
MarkerPositions(s) ==
    {i \in 1..(Len(s) - 1) : s[i] = "P" /\ s[i + 1] = "T"}

RECURSIVE DigitRun(_, _)
\* The greedy \d+ : the number of consecutive digits of s from position p on.
DigitRun(s, p) ==
    IF p <= Len(s) /\ IsDigit(s[p]) THEN 1 + DigitRun(s, p + 1) ELSE 0

\* Variant: (\d) in place of (\d+), a count of exactly one digit.
GroupOneDigit(s, p, letter) ==
    IF p + 1 <= Len(s) /\ IsDigit(s[p]) /\ s[p + 1] = letter
    THEN [capture |-> Some(SubSeq(s, p, p)), next |-> p + 2]
    ELSE [capture |-> Null, next |-> p]

\* One optional group (?:(\d+)X)? tried at position p: the captured digits (Null
\* when the group does not take part in the match) and the position after it.
Group(s, p, letter) ==
    LET n == DigitRun(s, p)
    IN  IF n > 0 /\ p + n <= Len(s) /\ s[p + n] = letter
        THEN [capture |-> Some(SubSeq(s, p, p + n - 1)), next |-> p + n + 1]
        ELSE [capture |-> Null, next |-> p]

\* Variant: the pattern P(?:\d+D)?T..., an optional day count between the
\* marker letters, its value dropped.
MatchWithDays(s) ==
    LET starts == {i \in 1..Len(s) :
                      /\ s[i] = "P"
                      /\ LET n == DigitRun(s, i + 1)
                             q == IF n > 0 /\ i + n + 1 <= Len(s) /\ s[i + n + 1] = "D"
                                  THEN i + n + 2 ELSE i + 1
                         IN  q <= Len(s) /\ s[q] = "T"}
    IN  IF starts = {} THEN Null
        ELSE LET i == CHOOSE k \in starts : \A j \in starts : k <= j
                 n == DigitRun(s, i + 1)
                 q == IF n > 0 /\ i + n + 1 <= Len(s) /\ s[i + n + 1] = "D"
                      THEN i + n + 2 ELSE i + 1
                 h == Group(s, q + 1, "H")
                 m == Group(s, h.next, "M")
                 sec == Group(s, m.next, "S")
             IN  Some(<<h.capture, m.capture, sec.capture>>)

\* durationString.match(/PT(?:(\d+)H)?(?:(\d+)M)?(?:(\d+)S)?/): Null when the
\* pattern occurs nowhere, else the three captures of the leftmost occurrence.
Match(s) ==
    IF MarkerPositions(s) = {} THEN Null
    ELSE LET i == CHOOSE k \in MarkerPositions(s) :
                      \A j \in MarkerPositions(s) : k <= j
             h == Group(s, i + 2, "H")
             m == Group(s, h.next, "M")
             sec == Group(s, m.next, "S")
         IN  Some(<<h.capture, m.capture, sec.capture>>)

\* matches[k] || '0'
OrZero(capture) == IF IsNull(capture) THEN <<"0">> ELSE Value(capture)

parseISO8601Duration(durationString) ==
    IF durationString = <<>> THEN 0
    ELSE LET matches == Match(durationString)
         IN  IF IsNull(matches) THEN 0
             ELSE LET hours   == parseInt(OrZero(Value(matches)[1]))
                      minutes == parseInt(OrZero(Value(matches)[2]))
                      seconds == parseInt(OrZero(Value(matches)[3]))
                  IN  hours * 3600 + minutes * 60 + seconds

----------------------------------------------------------------------------
(* extractPlaylistId, route.ts 20-32                                       *)

\* The index of the first occurrence of a character of cs in s at or after
\* position p; Len(s) + 1 when there is none.
IndexOf(s, cs, p) ==
    LET hits == {i \in p..Len(s) : s[i] \in cs}
    IN  IF hits = {} THEN Len(s) + 1
        ELSE CHOOSE i \in hits : \A j \in hits : i <= j

RECURSIVE Split(_, _)
\* s.split(sep), sep one character.
Split(s, sep) ==
    LET i == IndexOf(s, {sep}, 1)
    IN  IF i > Len(s) THEN <<s>>
        ELSE <<SubSeq(s, 1, i - 1)>> \o Split(SubSeq(s, i + 1, Len(s)), sep)

HttpsScheme == <<"h", "t", "t", "p", "s", ":">>

RECURSIVE SkipSlashes(_, _)
\* The first position at or after p that holds no "/".
SkipSlashes(s, p) ==
    IF p <= Len(s) /\ s[p] = "/" THEN SkipSlashes(s, p + 1) ELSE p

\* new URL(url) for the inputs modelled here (no whitespace, no "%", no
\* credentials or port, scheme https or none): it throws (Null) unless url is
\* "https:", any number of slashes and a non-empty host; the result carries the
\* query, the text between the first "?" and the first "#".
NewURL(url) ==
    LET host == SkipSlashes(url, Len(HttpsScheme) + 1)
    IN  IF Len(url) < Len(HttpsScheme)
              \/ SubSeq(url, 1, Len(HttpsScheme)) # HttpsScheme
              \/ host > Len(url)
              \/ url[host] \in {"?", "#"}
        THEN Null
        ELSE LET hash  == IndexOf(url, {"#"}, 1)
                 query == IndexOf(url, {"?"}, 1)
             IN  Some([search |-> IF query < hash
                                  THEN SubSeq(url, query + 1, hash - 1)
                                  ELSE <<>>])

\* One name=value pair of the query: split at the first "=", "+" read as a space.
Pair(piece) ==
    LET eq    == IndexOf(piece, {"="}, 1)
        plus(s) == [i \in 1..Len(s) |-> IF s[i] = "+" THEN " " ELSE s[i]]
    IN  [name  |-> plus(SubSeq(piece, 1, eq - 1)),
         value |-> plus(SubSeq(piece, eq + 1, Len(piece)))]

\* Variant: the value of the last pair of that name.
SearchParamsGetLast(parsedUrl, name) ==
    LET pieces == SelectSeq(Split(parsedUrl.search, "&"), LAMBDA p : p # <<>>)
        named  == SelectSeq(pieces, LAMBDA p : Pair(p).name = name)
    IN  IF named = <<>> THEN Null ELSE Some(Pair(named[Len(named)]).value)

\* parsedUrl.searchParams.get(name): the value of the first pair of that name,
\* Null when there is none.
SearchParamsGet(parsedUrl, name) ==
    LET pieces == SelectSeq(Split(parsedUrl.search, "&"), LAMBDA p : p # <<>>)
        named  == SelectSeq(pieces, LAMBDA p : Pair(p).name = name)
    IN  IF named = <<>> THEN Null ELSE Some(Pair(named[1]).value)

\* The character class [a-zA-Z0-9_-].
IsIdChar(c) == c \in LowerChars \cup UpperChars \/ IsDigit(c) \/ c \in {"_", "-"}

\* Variant: the pattern without its anchors, one identifier character anywhere.
TestIdPatternUnanchored(s) == \E i \in 1..Len(s) : IsIdChar(s[i])

\* /^[a-zA-Z0-9_-]+$/.test(s)
TestIdPattern(s) == s # <<>> /\ \A i \in 1..Len(s) : IsIdChar(s[i])

ListName == <<"l", "i", "s", "t">>

extractPlaylistId(url) ==
    LET parsedUrl == NewURL(url)
    IN  IF IsNull(parsedUrl) THEN Null                        \* catch: return null
        ELSE LET playlistId == SearchParamsGet(Value(parsedUrl), ListName)
             IN  IF ~IsNull(playlistId) /\ Value(playlistId) # <<>>
                       /\ TestIdPattern(Value(playlistId))
                 THEN playlistId
                 ELSE Null

----------------------------------------------------------------------------
(* Inputs of the helper specifications                                     *)

MaxSeconds == 7300

MaxCount == 3

\* Totals beyond MaxSeconds: two-digit and three-digit hour counts.
LongTotals == {35999, 36000, 86399, 86400, 359999, 360000, 363599}

FormatInputs == ((0..MaxSeconds) \cup LongTotals) \X (1..MaxCount)

\* A component count together with the digits that write it.
Numerals ==
    {[v |-> 0,   d |-> <<"0">>],
     [v |-> 7,   d |-> <<"7">>],
     [v |-> 9,   d |-> <<"0", "9">>],
     [v |-> 12,  d |-> <<"1", "2">>],
     [v |-> 60,  d |-> <<"6", "0">>],
     [v |-> 100, d |-> <<"1", "0", "0">>]}

OptNumerals == {Null} \cup {Some(n) : n \in Numerals}

Component(o, letter) == IF IsNull(o) THEN <<>> ELSE Value(o).d \o <<letter>>

\* The encoding PT[nH][nM][nS] of the given components.
Encode(h, m, s) ==
    <<"P", "T">> \o Component(h, "H") \o Component(m, "M") \o Component(s, "S")

ValidDurations ==
    {[kind |-> "valid", comps |-> <<h, m, s>>, str |-> Encode(h, m, s)] :
        h \in OptNumerals, m \in OptNumerals, s \in OptNumerals}

MaxRawLen == 4

RawChars == {"P", "T", "D", "1", "H", "S", "x"}

RECURSIVE Strings(_, _)
\* All strings over cs of length at most n.
Strings(cs, n) ==
    IF n = 0 THEN {<<>>}
    ELSE LET shorter == Strings(cs, n - 1)
         IN  shorter \cup {Append(s, c) : s \in shorter, c \in cs}

\* Encodings with a day component before the time marker, and other text.
DaySamples ==
    {<<"P", "1", "D", "T", "2", "H">>,
     <<"P", "1", "D", "T", "2", "H", "3", "M", "4", "S">>,
     <<"P", "2", "D">>,
     <<"P", "1", "D", "T", "5", "S">>,
     <<"1", ":", "0", "2", ":", "0", "0">>}

RawDurations ==
    {[kind |-> "raw", comps |-> <<Null, Null, Null>>, str |-> s] :
        s \in Strings(RawChars, MaxRawLen) \cup DaySamples}

ParseInputs == ValidDurations \cup RawDurations

MaxValueLen == 2

ValueChars == {"a", "Z", "7", "_", "-", "!", "+"}

PlaylistPath == <<"/", "p", "l", "a", "y", "l", "i", "s", "t">>

\* "https://x/playlist", "x/playlist" (no scheme), "" and "https://" (no host).
Bases ==
    {[ok |-> TRUE,  str |-> HttpsScheme \o <<"/", "/", "x">> \o PlaylistPath],
     [ok |-> FALSE, str |-> <<"x">> \o PlaylistPath],
     [ok |-> FALSE, str |-> <<>>],
     [ok |-> FALSE, str |-> HttpsScheme \o <<"/", "/">>]}

\* A pair before the list parameter, one after it, and a fragment.
OtherPairs == {Null, Some(<<"v", "=", "a", "1">>)}

LaterPairs == {Null, Some(ListName \o <<"=", "!">>), Some(ListName \o <<"=", "b">>)}

Fragments == {<<>>, <<"#">> \o ListName \o <<"=", "c">>}

ListValues == {Null} \cup {Some(v) : v \in Strings(ValueChars, MaxValueLen)}

RECURSIVE Join(_, _)
Join(ss, sep) ==
    IF ss = <<>> THEN <<>>
    ELSE IF Len(ss) = 1 THEN ss[1]
    ELSE ss[1] \o <<sep>> \o Join(Tail(ss), sep)

\* The URL text of a case: base, "?" and the pairs joined by "&", fragment.
BuildUrl(base, other, list, later, fragment) ==
    LET pairs == (IF IsNull(other) THEN <<>> ELSE <<Value(other)>>)
                 \o (IF IsNull(list) THEN <<>> ELSE <<ListName \o <<"=">> \o Value(list)>>)
                 \o (IF IsNull(later) THEN <<>> ELSE <<Value(later)>>)
    IN  base.str \o (IF pairs = <<>> THEN <<>> ELSE <<"?">> \o Join(pairs, "&"))
                 \o fragment

\* Cases with a later list pair always have a first one, so that `list` below
\* is the first pair of that name.
UrlInputs ==
    {c \in {[ok |-> b.ok, list |-> l, later |-> a, str |-> BuildUrl(b, o, l, a, f)] :
                b \in Bases, o \in OtherPairs, l \in ListValues,
                a \in LaterPairs, f \in Fragments} :
        IsNull(c.list) => IsNull(c.later)}

----------------------------------------------------------------------------
(* The catalog service (googleapis youtube v3), as POST sees it            *)

\* An item of a membership page without contentDetails.videoId.
NoId == 0

PageSize == 50

BatchSize == 50

\* contentDetails.duration of a video, Null when the resource carries none:
\* 1, 2, 3 last 30 s, 90 s and one hour; 4 has no duration; 5 lasts over a day
\* (a day component before the time marker); any other id lasts id minutes.
Duration(id) ==
    CASE id = 1 -> Some(<<"P", "T", "3", "0", "S">>)
      [] id = 2 -> Some(<<"P", "T", "1", "M", "3", "0", "S">>)
      [] id = 3 -> Some(<<"P", "T", "1", "H">>)
      [] id = 4 -> Null
      [] id = 5 -> Some(<<"P", "1", "D", "T", "2", "H">>)
      [] OTHER  -> Some(<<"P", "T">> \o String(id) \o <<"M">>)

\* A full page: PageSize distinct videos.
FullPage == [i \in 1..PageSize |-> 5 + i]

\* The items a membership page may hold (the videoId of each).
PageChoices ==
    {<<>>, <<NoId>>, <<1>>, <<2, 3>>, <<1, 2, 3>>, <<1, 1>>, <<NoId, 4, 5>>, FullPage}

MaxPages == 3

RECURSIVE DistinctIn(_, _, _)
\* The elements of s[lo..hi] that occur nowhere earlier in s, in order.
DistinctIn(s, lo, hi) ==
    IF lo > hi THEN <<>>
    ELSE IF lo = hi
    THEN (IF \E j \in 1..(lo - 1) : s[j] = s[lo] THEN <<>> ELSE <<s[lo]>>)
    ELSE LET mid == (lo + hi) \div 2
         IN  DistinctIn(s, lo, mid) \o DistinctIn(s, mid + 1, hi)

\* The sequence without the later occurrences of a repeated element.
Distinct(s) == DistinctIn(s, 1, Len(s))

Resource(id) == [id |-> id, duration |-> Duration(id)]

\* What videos.list may answer for the identifiers ids: a resource for every
\* identifier as often as it was asked for, one resource per distinct
\* identifier, the same without the first video (deleted or private), or a
\* reply without items. A reply is the sequence of the videos it describes.
DetailReplies(ids) ==
    LET videos == Distinct(ids)
    IN  {Some(ids), Some(videos), Some(Tail(videos)), Null}

\* A failed call: whether error.response.data.error is there, the reasons of
\* its errors array, and error.response.status (0: no number).
UpstreamErrors ==
    {[hasError |-> FALSE, reasons |-> <<>>,                        status |-> 0],
     [hasError |-> FALSE, reasons |-> <<>>,                        status |-> 502],
     [hasError |-> TRUE,  reasons |-> <<>>,                        status |-> 400],
     [hasError |-> TRUE,  reasons |-> <<"playlistNotFound">>,      status |-> 404],
     [hasError |-> TRUE,  reasons |-> <<"forbidden">>,             status |-> 403],
     [hasError |-> TRUE,  reasons |-> <<"keyInvalid">>,            status |-> 400],
     [hasError |-> TRUE,  reasons |-> <<"quotaExceeded">>,         status |-> 403],
     [hasError |-> TRUE,  reasons |-> <<"rateLimitExceeded">>,     status |-> 403],
     [hasError |-> TRUE,  reasons |-> <<"userRateLimitExceeded">>, status |-> 403],
     [hasError |-> TRUE,  reasons |-> <<"videoNotFound">>,         status |-> 404],
     [hasError |-> TRUE,  reasons |-> <<"backendError">>,          status |-> 0]}

\* The failures of a batch lookup that are modelled: no response at all, and
\* a quota failure.
DetailErrors ==
    {e \in UpstreamErrors :
        \/ ~e.hasError /\ e.status = 0
        \/ e.reasons = <<"quotaExceeded">>}

\* What req.json() throws on an unreadable body: an error without response.
BodyError == [hasError |-> FALSE, reasons |-> <<>>, status |-> 0]

\* The reply delivered last: the call it answers, and the error when it failed
\* (the error field of a fulfilled call is a filler, never read).
Fulfilled(api) == Some([api |-> api, ok |-> TRUE, error |-> BodyError])

Rejected(api, error) == Some([api |-> api, ok |-> FALSE, error |-> error])

----------------------------------------------------------------------------
(* Home, src/app/page.tsx 102-106: the state of the page                   *)

\* The response held by a run of handleSubmit that has received none.
NoReply == [status |-> 0, body |-> "none", data |-> [error |-> "", summary |-> Null]]

\* No run of handleSubmit in progress.
RunIdle == [pc |-> "idle", playlistUrl |-> <<>>, response |-> NoReply]

\* useState(""), useState(false), useState(null), useState(null).
HomeInitial ==
    /\ home = [playlistUrl |-> <<>>, loading |-> FALSE, results |-> Null, error |-> Null]
    /\ run = RunIdle

----------------------------------------------------------------------------
(* POST, route.ts 76-237                                                   *)

ValidUrl == HttpsScheme \o <<"/", "/", "x">> \o PlaylistPath
                \o <<"?">> \o ListName \o <<"=", "P", "L", "1", "_", "a">>

\* The bodies of a request: unreadable, without playlistUrl, with a
\* playlistUrl that is no string, or with a string.
Bodies ==
    {[kind |-> "unreadable", playlistUrl |-> <<>>],
     [kind |-> "absent",     playlistUrl |-> <<>>],
     [kind |-> "nonString",  playlistUrl |-> <<>>]}
    \cup {[kind |-> "string", playlistUrl |-> u] :
            u \in {ValidUrl,
                   <<>>,
                   HttpsScheme \o <<"/", "/", "x">> \o PlaylistPath,
                   HttpsScheme \o <<"/", "/", "x">> \o PlaylistPath
                       \o <<"?">> \o ListName \o <<"=", "a", "!">>,
                   <<"x">> \o PlaylistPath \o <<"?">> \o ListName \o <<"=", "a">>}}

Error(status, message) == [status |-> status, error |-> message, summary |-> Null]

\* NextResponse.json({...playlistDetails, videoCount, totalWatchTime,
\* averageDuration, totalSeconds}), status 200.
Summary(details, videoCount, totalWatchTime, averageDuration, total) ==
    [status  |-> 200,
     error   |-> "",
     summary |-> Some([details         |-> details,
                       videoCount      |-> videoCount,
                       totalWatchTime  |-> totalWatchTime,
                       averageDuration |-> averageDuration,
                       totalSeconds    |-> total])]

PlaylistsCall(id) ==
    [api |-> "playlists.list", playlistId |-> id, pageToken |-> Null, id |-> <<>>]

PlaylistItemsCall(id, token) ==
    [api |-> "playlistItems.list", playlistId |-> id, pageToken |-> token, id |-> <<>>]

VideosCall(batch) ==
    [api |-> "videos.list", playlistId |-> <<>>, pageToken |-> Null, id |-> batch]

\* Variant: every failure without a mapped reason code answered with the
\* generic status 500, the status of the upstream response left aside.
ErrorResponseGeneric(error) ==
    IF error.hasError
    THEN LET reason == IF Len(error.reasons) > 0 THEN error.reasons[1] ELSE ""
         IN  CASE reason = "playlistNotFound" ->
                    Error(404, "Playlist not found. Check the URL or playlist privacy settings.")
               [] reason = "forbidden" ->
                    Error(403, "Access forbidden. The playlist might be private or deleted.")
               [] reason = "keyInvalid" ->
                    Error(400, "Invalid API Key. Please check server configuration.")
               [] reason \in {"quotaExceeded", "rateLimitExceeded", "userRateLimitExceeded"} ->
                    Error(429, "API Quota Exceeded. Please try again later.")
               [] OTHER ->
                    Error(500, "YouTube API Error")
    ELSE Error(500, "Failed to fetch playlist information due to an unexpected server error.")

\* The catch block, route.ts 203-236.
ErrorResponse(error) ==
    IF error.hasError
    THEN LET reason == IF Len(error.reasons) > 0 THEN error.reasons[1] ELSE ""
         IN  CASE reason = "playlistNotFound" ->
                    Error(404, "Playlist not found. Check the URL or playlist privacy settings.")
               [] reason = "forbidden" ->
                    Error(403, "Access forbidden. The playlist might be private or deleted.")
               [] reason = "keyInvalid" ->
                    Error(400, "Invalid API Key. Please check server configuration.")
               [] reason \in {"quotaExceeded", "rateLimitExceeded", "userRateLimitExceeded"} ->
                    Error(429, "API Quota Exceeded. Please try again later.")
               [] OTHER ->
                    Error(IF error.status # 0 THEN error.status ELSE 500, "YouTube API Error")
    ELSE Error(500, "Failed to fetch playlist information due to an unexpected server error.")

RECURSIVE BatchesWithoutRemainder(_)
\* Variant: only the full slices, the rest of fewer than 50 left out.
BatchesWithoutRemainder(ids) ==
    IF Len(ids) < BatchSize THEN <<>>
    ELSE <<SubSeq(ids, 1, BatchSize)>>
            \o BatchesWithoutRemainder(SubSeq(ids, BatchSize + 1, Len(ids)))

RECURSIVE Batches(_)
\* The slices videoIds.slice(i, i + 50) of the loop at route.ts 167-176.
Batches(ids) ==
    IF Len(ids) = 0 THEN <<>>
    ELSE IF Len(ids) <= BatchSize THEN <<ids>>
    ELSE <<SubSeq(ids, 1, BatchSize)>> \o Batches(SubSeq(ids, BatchSize + 1, Len(ids)))

\* Variant: the identifiers of a page deduplicated.
CurrentVideoIdsDeduplicated(items) == Distinct(SelectSeq(items, LAMBDA id : id # NoId))

\* Variant: the filter left out.
CurrentVideoIdsUnfiltered(items) == items

\* item.contentDetails?.videoId of the items, those with a falsy id filtered out.
CurrentVideoIds(items) == SelectSeq(items, LAMBDA id : id # NoId)

\* What one item adds to totalSeconds, route.ts 182-185.
ItemSeconds(item) ==
    LET durationString == item.duration
    IN  IF ~IsNull(durationString) /\ Value(durationString) # <<>>
        THEN parseISO8601Duration(Value(durationString))
        ELSE 0

\* ItemSeconds of the resource of every video of the catalog, tabulated.
SecondsOf == [id \in 0..(5 + PageSize) |-> ItemSeconds(Resource(id))]

RECURSIVE SumDurations(_, _, _)
\* The inner forEach, route.ts 181-186, over items[lo..hi] of one response
\* (the sum by halves, to keep the evaluation shallow).
SumDurations(items, lo, hi) ==
    IF lo > hi THEN 0
    ELSE IF lo = hi THEN SecondsOf[items[lo]]
    ELSE LET mid == (lo + hi) \div 2
         IN  SumDurations(items, lo, mid) + SumDurations(items, mid + 1, hi)

RECURSIVE SumResponses(_)
\* The outer forEach, route.ts 180-187, over the responses in promise order.
SumResponses(ps) ==
    IF ps = <<>> THEN 0
    ELSE (IF IsNull(Head(ps).items) THEN 0
          ELSE SumDurations(Value(Head(ps).items), 1, Len(Value(Head(ps).items))))
         + SumResponses(Tail(ps))

\* const playlistId = extractPlaylistId(playlistUrl), route.ts 89, computed
\* once for a request; here tabulated over the bodies.
PlaylistIdOf == [b \in Bodies |-> extractPlaylistId(b.playlistUrl)]

Init ==
    /\ fn = "none" /\ arg = Null /\ result = Null
    /\ apiKey \in BOOLEAN
    /\ body \in Bodies
    /\ pc = "start"
    /\ playlistDetails = Null
    /\ videoIds = <<>>
    /\ nextPageToken = Null
    /\ promises = <<>>
    /\ totalSeconds = 0
    /\ averageSeconds = Null
    /\ response = Null
    /\ calls = <<>>
    /\ pagesServed = <<>>
    /\ settled = Null
    /\ HomeInitial

Respond(r) == pc' = "done" /\ response' = Some(r)

\* Variant: the body read and validated first, the API key checked only
\* before the first call.
ReceiveBodyFirst ==
    /\ pc = "start"
    /\ UNCHANGED <<helperVars, clientVars, apiKey, body, playlistDetails, videoIds, nextPageToken,
                   promises, totalSeconds, averageSeconds, pagesServed, settled>>
    /\ IF body.kind = "unreadable"
       THEN Respond(ErrorResponse(BodyError)) /\ UNCHANGED calls
       ELSE IF body.kind # "string" \/ body.playlistUrl = <<>>
       THEN Respond(Error(400, "Playlist URL is required.")) /\ UNCHANGED calls
       ELSE LET playlistId == PlaylistIdOf[body]
            IN  IF IsNull(playlistId)
                THEN Respond(Error(400, "Invalid YouTube Playlist URL format."))
                     /\ UNCHANGED calls
                ELSE IF ~apiKey
                THEN Respond(Error(500, "Server configuration error: API key missing."))
                     /\ UNCHANGED calls
                ELSE /\ calls' = Append(calls, PlaylistsCall(Value(playlistId)))
                     /\ pc' = "awaitPlaylists"
                     /\ UNCHANGED response

\* route.ts 76-102: the checks of the request, up to the metadata lookup.
Receive ==
    /\ pc = "start"
    /\ UNCHANGED <<helperVars, clientVars, apiKey, body, playlistDetails, videoIds, nextPageToken,
                   promises, totalSeconds, averageSeconds, pagesServed, settled>>
    /\ IF ~apiKey
       THEN Respond(Error(500, "Server configuration error: API key missing."))
            /\ UNCHANGED calls
       ELSE IF body.kind = "unreadable"
       THEN Respond(ErrorResponse(BodyError)) /\ UNCHANGED calls
       ELSE IF body.kind # "string" \/ body.playlistUrl = <<>>
       THEN Respond(Error(400, "Playlist URL is required.")) /\ UNCHANGED calls
       ELSE LET playlistId == PlaylistIdOf[body]
            IN  IF IsNull(playlistId)
                THEN Respond(Error(400, "Invalid YouTube Playlist URL format."))
                     /\ UNCHANGED calls
                ELSE /\ calls' = Append(calls, PlaylistsCall(Value(playlistId)))
                     /\ pc' = "awaitPlaylists"
                     /\ UNCHANGED response

PlaylistId == Value(PlaylistIdOf[body])

\* Variant: the page token left out of the request.
RequestPageWithoutToken(token) ==
    /\ calls' = Append(calls, PlaylistItemsCall(PlaylistId, Null))
    /\ pc' = "awaitPlaylistItems"

\* route.ts 133-138: the request of the first or the next membership page.
RequestPage(token) ==
    /\ calls' = Append(calls, PlaylistItemsCall(PlaylistId, token))
    /\ pc' = "awaitPlaylistItems"

\* route.ts 103-115, 127-138: the metadata lookup answered, with or without items.
PlaylistsFulfilled ==
    /\ pc = "awaitPlaylists"
    /\ \E found \in BOOLEAN :
          /\ settled' = Fulfilled("playlists.list")
          /\ playlistDetails' = IF found THEN Some("snippet") ELSE Null
    /\ RequestPage(Null)
    /\ UNCHANGED <<helperVars, clientVars, apiKey, body, videoIds, nextPageToken, promises,
                   totalSeconds, averageSeconds, response, pagesServed>>

\* Variant: every failure of the metadata lookup swallowed.
PlaylistsRejectedSwallowed ==
    /\ pc = "awaitPlaylists"
    /\ \E detailsError \in UpstreamErrors :
          settled' = Rejected("playlists.list", detailsError)
    /\ RequestPage(Null)
    /\ UNCHANGED <<helperVars, clientVars, apiKey, body, playlistDetails, videoIds, nextPageToken,
                   promises, totalSeconds, averageSeconds, response, pagesServed>>

\* Variant: every failure of the metadata lookup fatal, answered by the catch
\* block.
PlaylistsRejectedFatal ==
    /\ pc = "awaitPlaylists"
    /\ \E detailsError \in UpstreamErrors :
          /\ settled' = Rejected("playlists.list", detailsError)
          /\ Respond(ErrorResponse(detailsError))
    /\ UNCHANGED <<helperVars, clientVars, apiKey, body, playlistDetails, videoIds, nextPageToken,
                   promises, totalSeconds, averageSeconds, calls, pagesServed>>

\* route.ts 116-123, 127-138: the metadata lookup failed.
PlaylistsRejected ==
    /\ pc = "awaitPlaylists"
    /\ \E detailsError \in UpstreamErrors :
          /\ settled' = Rejected("playlists.list", detailsError)
          /\ IF detailsError.hasError /\ Len(detailsError.reasons) > 0
                   /\ detailsError.reasons[1] = "playlistNotFound"
             THEN /\ Respond(Error(404,
                        "Playlist not found. Check the URL or playlist privacy settings."))
                  /\ UNCHANGED calls
             ELSE /\ RequestPage(Null)
                  /\ UNCHANGED response
    /\ UNCHANGED <<helperVars, clientVars, apiKey, body, playlistDetails, videoIds, nextPageToken,
                   promises, totalSeconds, averageSeconds, pagesServed>>

\* Variant: the loop left after the first page, with or without a token.
PlaylistItemsFulfilledFirstPageOnly ==
    /\ pc = "awaitPlaylistItems"
    /\ \E items \in PageChoices, more \in BOOLEAN :
          /\ more => Len(pagesServed) + 1 < MaxPages
          /\ LET token == IF more THEN Some(Len(pagesServed) + 1) ELSE Null
                 ids   == videoIds \o CurrentVideoIds(items)
                 videoCount == Len(ids)
             IN  /\ settled' = Fulfilled("playlistItems.list")
                 /\ pagesServed' = Append(pagesServed, items)
                 /\ videoIds' = ids
                 /\ nextPageToken' = token
                 /\ IF videoCount = 0
                    THEN /\ Respond(Summary(playlistDetails, 0,
                                            <<"0", ":", "0", "0">>,
                                            <<"0", ":", "0", "0">>, 0))
                         /\ UNCHANGED <<promises, calls>>
                    ELSE /\ promises' = [i \in 1..Len(Batches(ids)) |->
                                            [state |-> "pending", items |-> Null, error |-> BodyError]]
                         /\ calls' = calls \o [i \in 1..Len(Batches(ids)) |->
                                                  VideosCall(Batches(ids)[i])]
                         /\ pc' = "awaitAll"
                         /\ UNCHANGED response
    /\ UNCHANGED <<helperVars, clientVars, apiKey, body, playlistDetails, totalSeconds,
                   averageSeconds>>

\* route.ts 140-176: a membership page answered. With a token the next page is
\* requested; without, the loop ends: an empty playlist is answered at once,
\* otherwise every batch lookup is issued.
PlaylistItemsFulfilled ==
    /\ pc = "awaitPlaylistItems"
    /\ \E items \in PageChoices, more \in BOOLEAN :
          /\ more => Len(pagesServed) + 1 < MaxPages
          /\ LET token == IF more THEN Some(Len(pagesServed) + 1) ELSE Null
                 ids   == videoIds \o CurrentVideoIds(items)
                 videoCount == Len(ids)
             IN  /\ settled' = Fulfilled("playlistItems.list")
                 /\ pagesServed' = Append(pagesServed, items)
                 /\ videoIds' = ids
                 /\ nextPageToken' = token
                 /\ IF ~IsNull(token)
                    THEN /\ RequestPage(token)
                         /\ UNCHANGED <<promises, response>>
                    ELSE IF videoCount = 0
                    THEN /\ Respond(Summary(playlistDetails, 0,
                                            <<"0", ":", "0", "0">>,
                                            <<"0", ":", "0", "0">>, 0))
                         /\ UNCHANGED <<promises, calls>>
                    ELSE /\ promises' = [i \in 1..Len(Batches(ids)) |->
                                            [state |-> "pending", items |-> Null, error |-> BodyError]]
                         /\ calls' = calls \o [i \in 1..Len(Batches(ids)) |->
                                                  VideosCall(Batches(ids)[i])]
                         /\ pc' = "awaitAll"
                         /\ UNCHANGED response
    /\ UNCHANGED <<helperVars, clientVars, apiKey, body, playlistDetails, totalSeconds,
                   averageSeconds>>

\* Variant: a failed page ends the loop, and the references of the pages
\* fetched so far are answered as the playlist.
PlaylistItemsRejectedPartial ==
    /\ pc = "awaitPlaylistItems"
    /\ \E error \in UpstreamErrors :
          /\ settled' = Rejected("playlistItems.list", error)
          /\ Respond(Summary(playlistDetails, Len(videoIds),
                             <<"0", ":", "0", "0">>, <<"0", ":", "0", "0">>, 0))
    /\ UNCHANGED <<helperVars, clientVars, apiKey, body, playlistDetails, videoIds, nextPageToken,
                   promises, totalSeconds, averageSeconds, calls, pagesServed>>

\* Variant: a failed page request issued once more before the failure is
\* taken as fatal.
PlaylistItemsRejectedRetried ==
    /\ pc = "awaitPlaylistItems"
    /\ \E error \in UpstreamErrors :
          /\ settled' = Rejected("playlistItems.list", error)
          /\ IF Len(calls) < 2 \/ calls[Len(calls) - 1] # calls[Len(calls)]
             THEN /\ calls' = Append(calls, calls[Len(calls)])
                  /\ UNCHANGED <<pc, response>>
             ELSE /\ Respond(ErrorResponse(error))
                  /\ UNCHANGED calls
    /\ UNCHANGED <<helperVars, clientVars, apiKey, body, playlistDetails, videoIds, nextPageToken,
                   promises, totalSeconds, averageSeconds, pagesServed>>

\* route.ts 133, 203-236: a membership page failed.
PlaylistItemsRejected ==
    /\ pc = "awaitPlaylistItems"
    /\ \E error \in UpstreamErrors :
          /\ settled' = Rejected("playlistItems.list", error)
          /\ Respond(ErrorResponse(error))
    /\ UNCHANGED <<helperVars, clientVars, apiKey, body, playlistDetails, videoIds, nextPageToken,
                   promises, totalSeconds, averageSeconds, calls, pagesServed>>

\* Variant: the total written by the lookup that completes last, from its own
\* reply alone (a lost update between the completion handlers).
VideosFulfilledLostUpdate ==
    /\ pc = "awaitAll"
    /\ \E i \in {k \in 1..Len(promises) : promises[k].state = "pending"} :
       \E reply \in DetailReplies(Batches(videoIds)[i]) :
          /\ LET ps == [promises EXCEPT ![i] =
                           [state |-> "fulfilled", items |-> reply, error |-> BodyError]]
                 total      == SumResponses(<<ps[i]>>)
                 videoCount == Len(videoIds)
                 average    == IF videoCount > 0 THEN <<total, videoCount>> ELSE <<0, 1>>
             IN  /\ promises' = ps
                 /\ settled' = Fulfilled("videos.list")
                 /\ IF \A k \in 1..Len(ps) : ps[k].state = "fulfilled"
                    THEN /\ totalSeconds' = total
                         /\ averageSeconds' = Some(average)
                         /\ Respond(Summary(playlistDetails, videoCount,
                                            formatDuration(<<total, 1>>),
                                            formatDuration(average), total))
                    ELSE UNCHANGED <<pc, response, totalSeconds, averageSeconds>>
    /\ UNCHANGED <<helperVars, clientVars, apiKey, body, playlistDetails, videoIds, nextPageToken,
                   calls, pagesServed>>

\* route.ts 178-201: one batch lookup answered. When it is the last one
\* Promise.all waits for, the durations are summed and the summary returned.
VideosFulfilled ==
    /\ pc = "awaitAll"
    /\ \E i \in {k \in 1..Len(promises) : promises[k].state = "pending"} :
       \E reply \in DetailReplies(Batches(videoIds)[i]) :
          /\ LET ps == [promises EXCEPT ![i] =
                           [state |-> "fulfilled", items |-> reply, error |-> BodyError]]
                 total      == SumResponses(ps)
                 videoCount == Len(videoIds)
                 average    == IF videoCount > 0 THEN <<total, videoCount>> ELSE <<0, 1>>
             IN  /\ promises' = ps
                 /\ settled' = Fulfilled("videos.list")
                 /\ IF \A k \in 1..Len(ps) : ps[k].state = "fulfilled"
                    THEN /\ totalSeconds' = total
                         /\ averageSeconds' = Some(average)
                         /\ Respond(Summary(playlistDetails, videoCount,
                                            formatDuration(<<total, 1>>),
                                            formatDuration(average), total))
                    ELSE UNCHANGED <<pc, response, totalSeconds, averageSeconds>>
    /\ UNCHANGED <<helperVars, clientVars, apiKey, body, playlistDetails, videoIds, nextPageToken,
                   calls, pagesServed>>

\* Variant: the join waits for every lookup to settle, and a failed one counts
\* as a reply without items.
VideosRejectedSettled ==
    /\ pc = "awaitAll"
    /\ \E i \in 1..Len(promises), error \in DetailErrors :
          /\ promises[i].state = "pending"
          /\ LET ps == [promises EXCEPT ![i].state = "rejected", ![i].error = error]
                 total      == SumResponses(ps)
                 videoCount == Len(videoIds)
                 average    == IF videoCount > 0 THEN <<total, videoCount>> ELSE <<0, 1>>
             IN  /\ promises' = ps
                 /\ settled' = Rejected("videos.list", error)
                 /\ IF \A k \in 1..Len(ps) : ps[k].state # "pending"
                    THEN /\ totalSeconds' = total
                         /\ averageSeconds' = Some(average)
                         /\ Respond(Summary(playlistDetails, videoCount,
                                            formatDuration(<<total, 1>>),
                                            formatDuration(average), total))
                    ELSE UNCHANGED <<pc, response, totalSeconds, averageSeconds>>
    /\ UNCHANGED <<helperVars, clientVars, apiKey, body, playlistDetails, videoIds, nextPageToken,
                   calls, pagesServed>>

\* route.ts 178, 203-236: one batch lookup failed while Promise.all is awaited:
\* Promise.all rejects and the catch block answers. (What the other lookups
\* do after POST has returned is VideosSettledLate.)
VideosRejected ==
    /\ pc = "awaitAll"
    /\ \E i \in 1..Len(promises), error \in DetailErrors :
          /\ promises[i].state = "pending"
          /\ promises' = [promises EXCEPT ![i].state = "rejected", ![i].error = error]
          /\ settled' = Rejected("videos.list", error)
          /\ Respond(ErrorResponse(error))
    /\ UNCHANGED <<helperVars, clientVars, apiKey, body, playlistDetails, videoIds, nextPageToken,
                   totalSeconds, averageSeconds, calls, pagesServed>>

\* Variant of VideosSettledLate in which a lookup failing after POST has
\* returned runs the catch block again and its error response replaces the
\* one returned: the last failure wins.
VideosSettledLateLastWins ==
    /\ pc = "done"
    /\ \E i \in 1..Len(promises) :
          /\ promises[i].state = "pending"
          /\ \/ /\ promises' = [promises EXCEPT ![i].state = "fulfilled"]
                /\ UNCHANGED response
             \/ \E error \in DetailErrors :
                   /\ promises' = [promises EXCEPT ![i].state = "rejected",
                                                   ![i].error = error]
                   /\ response' = Some(ErrorResponse(error))
    /\ UNCHANGED <<helperVars, clientVars, apiKey, body, pc, playlistDetails, videoIds,
                   nextPageToken, totalSeconds, averageSeconds, calls,
                   pagesServed, settled>>

\* route.ts 178: a batch lookup that settles after Promise.all has rejected
\* and POST has returned. No code runs for it: the promise alone records the
\* outcome (the value of a late reply, which nothing reads, is left out).
VideosSettledLate ==
    /\ pc = "done"
    /\ \E i \in 1..Len(promises) :
          /\ promises[i].state = "pending"
          /\ \/ promises' = [promises EXCEPT ![i].state = "fulfilled"]
             \/ \E error \in DetailErrors :
                   promises' = [promises EXCEPT ![i].state = "rejected",
                                                ![i].error = error]
    /\ UNCHANGED <<helperVars, clientVars, apiKey, body, pc, playlistDetails, videoIds,
                   nextPageToken, totalSeconds, averageSeconds, response, calls,
                   pagesServed, settled>>

\* The steps of POST itself: its start and its continuations after an await.
PostStep ==
    \/ Receive
    \/ PlaylistsFulfilled
    \/ PlaylistsRejected
    \/ PlaylistItemsFulfilled
    \/ PlaylistItemsRejected
    \/ VideosFulfilled
    \/ VideosRejected

Next ==
    \/ Receive
    \/ PlaylistsFulfilled
    \/ PlaylistsRejected
    \/ PlaylistItemsFulfilled
    \/ PlaylistItemsRejected
    \/ VideosFulfilled
    \/ VideosRejected
    \/ VideosSettledLate

Spec == Init /\ [][Next]_vars

\* Every call issued settles: POST is started, and the await of each stage
\* is resumed, by the failure of the call or by its reply.
FairSpec ==
    /\ Spec
    /\ WF_vars(Receive)
    /\ WF_vars(PlaylistsRejected \/ PlaylistsFulfilled)
    /\ WF_vars(PlaylistItemsRejected \/ PlaylistItemsFulfilled)
    /\ WF_vars(VideosRejected \/ VideosFulfilled)

----------------------------------------------------------------------------
(* Helper specifications: each helper applied once to an input of its set  *)

\* POST is not running in the helper specifications.
PostIdle ==
    /\ apiKey = FALSE /\ body = [kind |-> "absent", playlistUrl |-> <<>>]
    /\ pc = "idle" /\ playlistDetails = Null /\ videoIds = <<>>
    /\ nextPageToken = Null /\ promises = <<>> /\ totalSeconds = 0
    /\ averageSeconds = Null /\ response = Null /\ calls = <<>>
    /\ pagesServed = <<>> /\ settled = Null

InitFormat ==
    fn = "formatDuration" /\ arg \in FormatInputs /\ result = Null /\ PostIdle /\ HomeInitial

CallFormat ==
    /\ fn = "formatDuration" /\ IsNull(result)
    /\ result' = Some(formatDuration(arg))
    /\ UNCHANGED <<fn, arg, postVars, clientVars>>

SpecFormat == InitFormat /\ [][CallFormat]_vars

InitParse ==
    fn = "parseISO8601Duration" /\ arg \in ParseInputs /\ result = Null /\ PostIdle /\ HomeInitial

CallParse ==
    /\ fn = "parseISO8601Duration" /\ IsNull(result)
    /\ result' = Some(parseISO8601Duration(arg.str))
    /\ UNCHANGED <<fn, arg, postVars, clientVars>>

SpecParse == InitParse /\ [][CallParse]_vars

InitExtract ==
    fn = "extractPlaylistId" /\ arg \in UrlInputs /\ result = Null /\ PostIdle /\ HomeInitial

CallExtract ==
    /\ fn = "extractPlaylistId" /\ IsNull(result)
    /\ result' = Some(extractPlaylistId(arg.str))
    /\ UNCHANGED <<fn, arg, postVars, clientVars>>

SpecExtract == InitExtract /\ [][CallExtract]_vars

----------------------------------------------------------------------------
(* handleSubmit, src/app/page.tsx 108-142                                  *)

YoutubeHost == <<"y", "o", "u", "t", "u", "b", "e", ".", "c", "o", "m">>

\* "youtube.com/playlist?list="
PlaylistMarker == YoutubeHost \o PlaylistPath \o <<"?">> \o ListName \o <<"=">>

\* s.includes(part)
includes(s, part) ==
    \E i \in 1..(Len(s) - Len(part) + 1) : SubSeq(s, i, i + Len(part) - 1) = part

\* What the user may have typed into the input: a playlist URL, one without
\* playlist identifier, a watch URL that names a list, a playlist URL of
\* another host, and a URL of another site with the marker in its query.
TypedUrls ==
    {HttpsScheme \o <<"/", "/", "w", "w", "w", ".">> \o PlaylistMarker
         \o <<"P", "L", "1", "_", "a">>,
     HttpsScheme \o <<"/", "/">> \o PlaylistMarker,
     HttpsScheme \o <<"/", "/">> \o YoutubeHost \o <<"/", "w", "a", "t", "c", "h", "?">>
         \o ListName \o <<"=", "a">>,
     ValidUrl,
     HttpsScheme \o <<"/", "/", "x", "/", "?", "q", "=">> \o PlaylistMarker}

\* The responses POST returns (route.ts 76-237): its error responses and
\* summaries, of no item, with and without metadata.
PostResponses ==
    {Error(500, "Server configuration error: API key missing."),
     Error(400, "Playlist URL is required."),
     Error(400, "Invalid YouTube Playlist URL format.")}
    \cup {ErrorResponse(e) : e \in UpstreamErrors}
    \cup {Summary(Null, 0, formatDuration(<<0, 1>>), formatDuration(<<0, 1>>), 0),
          Summary(Some("snippet"), 0, formatDuration(<<0, 1>>), formatDuration(<<0, 1>>), 0),
          Summary(Some("snippet"), 4, formatDuration(<<3720, 1>>),
                  formatDuration(<<3720, 4>>), 3720)}

\* What fetch may resolve to: a response of POST, or one made on the way (by
\* the platform or a proxy): a body that is no JSON, the JSON null, or a JSON
\* object without error field.
FetchReplies ==
    {[status |-> r.status, body |-> "json",
      data |-> [error |-> r.error, summary |-> r.summary]] : r \in PostResponses}
    \cup {[status |-> s, body |-> b, data |-> NoReply.data] :
            s \in {200, 404, 502}, b \in {"notJson", "null", "json"}}

\* The messages of the errors fetch rejects with ("": an error without message).
FetchFailures == {"Failed to fetch", ""}

\* response.ok
Ok(reply) == reply.status \in 200..299

\* The catch block, page.tsx 137-138, and the finally block, 139-141.
Caught(message) ==
    /\ home' = [home EXCEPT !.error = Some(IF message # "" THEN message
                                           ELSE "An unexpected error occurred."),
                            !.loading = FALSE]
    /\ run' = RunIdle

\* The input's onChange, page.tsx 204: setPlaylistUrl(e.target.value).
setPlaylistUrl ==
    /\ \E url \in TypedUrls :
          /\ url # home.playlistUrl
          /\ home' = [home EXCEPT !.playlistUrl = url]
    /\ UNCHANGED <<helperVars, postVars, run>>

\* Variant of handleSubmit without setResults(null) at its start.
handleSubmitKeepsResults ==
    /\ ~home.loading
    /\ home.playlistUrl # <<>>
    /\ IF ~includes(home.playlistUrl, PlaylistMarker)
       THEN /\ home' = [home EXCEPT
                   !.error = Some("Invalid YouTube Playlist URL format. Please include 'youtube.com/playlist?list='."),
                   !.loading = FALSE]
            /\ UNCHANGED run
       ELSE /\ home' = [home EXCEPT !.loading = TRUE, !.error = Null]
            /\ run' = [pc |-> "awaitFetch", playlistUrl |-> home.playlistUrl,
                       response |-> NoReply]
    /\ UNCHANGED <<helperVars, postVars>>

\* page.tsx 108-126, up to the await of fetch. The form is submitted only with
\* the button enabled (disabled={loading}) and the input filled (required).
handleSubmit ==
    /\ ~home.loading
    /\ home.playlistUrl # <<>>
    /\ IF ~includes(home.playlistUrl, PlaylistMarker)
       THEN /\ home' = [home EXCEPT
                   !.error = Some("Invalid YouTube Playlist URL format. Please include 'youtube.com/playlist?list='."),
                   !.results = Null,
                   !.loading = FALSE]
            /\ UNCHANGED run
       ELSE /\ home' = [home EXCEPT !.loading = TRUE, !.error = Null, !.results = Null]
            /\ run' = [pc |-> "awaitFetch", playlistUrl |-> home.playlistUrl,
                       response |-> NoReply]
    /\ UNCHANGED <<helperVars, postVars>>

\* fetch resolves: response.json() is awaited, page.tsx 128.
FetchFulfilled ==
    /\ run.pc = "awaitFetch"
    /\ \E reply \in FetchReplies :
          run' = [run EXCEPT !.pc = "awaitJson", !.response = reply]
    /\ UNCHANGED <<helperVars, postVars, home>>

\* fetch rejects: catch and finally.
FetchRejected ==
    /\ run.pc = "awaitFetch"
    /\ \E message \in FetchFailures : Caught(message)
    /\ UNCHANGED <<helperVars, postVars>>

\* response.json() resolves with data, page.tsx 128-135: a response that is
\* not ok throws data.error or the status message (reading the error of null
\* throws a TypeError), an ok one sets the results; then the finally block.
JsonFulfilled ==
    /\ run.pc = "awaitJson"
    /\ run.response.body \in {"json", "null"}
    /\ LET response_ == run.response
           data      == response_.data
       IN  IF ~Ok(response_)
           THEN Caught(IF response_.body = "null"
                       THEN "Cannot read properties of null (reading 'error')"
                       ELSE IF data.error # "" THEN data.error
                       ELSE "Request failed with status " \o ToString(response_.status))
           ELSE /\ home' = [home EXCEPT
                       !.results = IF response_.body = "null" THEN Null ELSE Some(data),
                       !.loading = FALSE]
                /\ run' = RunIdle
    /\ UNCHANGED <<helperVars, postVars>>

\* response.json() rejects, the body being no JSON: catch and finally.
JsonRejected ==
    /\ run.pc = "awaitJson"
    /\ run.response.body = "notJson"
    /\ Caught("Unexpected token '<', \"<!DOCTYPE \"... is not valid JSON")
    /\ UNCHANGED <<helperVars, postVars>>

InitClient ==
    fn = "none" /\ arg = Null /\ result = Null /\ PostIdle /\ HomeInitial

NextClient ==
    \/ setPlaylistUrl
    \/ handleSubmit
    \/ FetchFulfilled
    \/ FetchRejected
    \/ JsonFulfilled
    \/ JsonRejected

SpecClient == InitClient /\ [][NextClient]_vars

----------------------------------------------------------------------------
(* Properties                                                              *)

Responded == ~IsNull(response)

IsSummary == Responded /\ ~IsNull(Value(response).summary)

TheSummary == Value(Value(response).summary)

RECURSIVE CollectedReferences(_)
\* The item references of the pages served, page after page, every occurrence
\* counted; an item without identifier is no reference.
CollectedReferences(pages) ==
    IF pages = <<>> THEN <<>>
    ELSE CollectedReferences(SubSeq(pages, 1, Len(pages) - 1))
            \o SelectSeq(pages[Len(pages)], LAMBDA id : id # NoId)

RECURSIVE SumSeq(_, _, _)
\* The sum of ns[lo..hi].
SumSeq(ns, lo, hi) ==
    IF lo > hi THEN 0
    ELSE IF lo = hi THEN ns[lo]
    ELSE LET mid == (lo + hi) \div 2
         IN  SumSeq(ns, lo, mid) + SumSeq(ns, mid + 1, hi)

\* The videos some batch lookup has returned.
ReturnedVideos ==
    {id \in 0..(5 + PageSize) :
        \E i \in 1..Len(promises) :
            /\ ~IsNull(promises[i].items)
            /\ \E k \in 1..Len(Value(promises[i].items)) :
                  Value(promises[i].items)[k] = id}

\* The parsed duration of a video, 0 when its resource carries none.
ParsedDuration(id) ==
    IF IsNull(Duration(id)) THEN 0 ELSE parseISO8601Duration(Value(Duration(id)))

ParsedDurations == [id \in 0..(5 + PageSize) |-> ParsedDuration(id)]

\* The sum, over every reference collected, of the parsed duration of its
\* video, 0 for a video no lookup returned.
SumOverReferences ==
    LET refs == CollectedReferences(pagesServed)
        returned == ReturnedVideos
        each == [k \in 1..Len(refs) |->
                    IF refs[k] \in returned THEN ParsedDurations[refs[k]] ELSE 0]
    IN  SumSeq(each, 1, Len(each))

\* C1: in every summary response totalSeconds is the sum, over every item
\* reference collected during pagination (each occurrence counted), of the
\* parsed duration of its item, 0 for an item the lookup did not return or
\* returned without duration.
C1_TotalIsSumOverReferences ==
    IsSummary => TheSummary.totalSeconds = SumOverReferences

\* The seconds a clock string H:MM:SS or M:SS stands for.
ClockSeconds(str) ==
    LET fields == Split(str, ":")
    IN  IF Len(fields) = 3
        THEN parseInt(fields[1]) * 3600 + parseInt(fields[2]) * 60 + parseInt(fields[3])
        ELSE parseInt(fields[1]) * 60 + parseInt(fields[2])

\* The number of resources with a duration that the batch lookups returned.
DurationsReturned ==
    LET each == [i \in 1..Len(promises) |->
                    IF IsNull(promises[i].items) THEN 0
                    ELSE Len(SelectSeq(Value(promises[i].items),
                                       LAMBDA id : ~IsNull(Duration(id))))]
    IN  SumSeq(each, 1, Len(each))

\* C2: in every summary response videoCount is the number of references
\* concatenated over the pages, repeats included, and the average formatted
\* into averageDuration is totalSeconds / videoCount when videoCount > 0 and 0
\* when videoCount = 0.
C2_AverageIsTotalOverCount ==
    IsSummary =>
        LET count == Len(CollectedReferences(pagesServed))
        IN  /\ TheSummary.videoCount = count
            /\ IF count > 0
               THEN /\ ~IsNull(averageSeconds)
                    /\ Value(averageSeconds)[1] * count
                          = TheSummary.totalSeconds * Value(averageSeconds)[2]
                    /\ ClockSeconds(TheSummary.averageDuration)
                          = TheSummary.totalSeconds \div count
               ELSE ClockSeconds(TheSummary.averageDuration) = 0

\* The references 1, 1, 2, 3 answered with one resource per video: the count
\* is 4, above the 3 durations returned, and the average 3720 / 4.
C2_Witness ==
    /\ IsSummary
    /\ CollectedReferences(pagesServed) = <<1, 1, 2, 3>>
    /\ TheSummary.videoCount = 4
    /\ DurationsReturned = 3
    /\ TheSummary.totalSeconds = 3720
    /\ TheSummary.averageDuration = <<"1", "5", ":", "3", "0">>

AllFulfilled ==
    promises # <<>> /\ \A i \in 1..Len(promises) : promises[i].state = "fulfilled"

\* The playlist of the scenario: the references 1, 2, 3 (30 s, 90 s, 3600 s),
\* the detail lookup answered with all three.
ThreeItemsReturned ==
    /\ CollectedReferences(pagesServed) = <<1, 2, 3>>
    /\ AllFulfilled
    /\ ReturnedVideos = {1, 2, 3}

\* C3: three items of 30 s, 90 s and 3600 s give the summary itemCount 3,
\* totalSeconds 3720, "1:02:00", average 1240 and "20:40", however the items
\* are split over pages and whatever the metadata lookup gave, short of
\* playlist-not-found.
C3_ThreeItemScenario ==
    ThreeItemsReturned =>
        /\ IsSummary
        /\ Value(response).status = 200
        /\ TheSummary.videoCount = 3
        /\ TheSummary.totalSeconds = 3720
        /\ TheSummary.totalWatchTime = <<"1", ":", "0", "2", ":", "0", "0">>
        /\ averageSeconds = Some(<<3720, 3>>)
        /\ TheSummary.averageDuration = <<"2", "0", ":", "4", "0">>

\* The scenario with the items on two pages after an empty one and without
\* metadata.
C3_Witness ==
    /\ ThreeItemsReturned
    /\ pagesServed = <<<<>>, <<1>>, <<2, 3>>>>
    /\ IsNull(playlistDetails)
    /\ IsSummary

ZeroClock == <<"0", ":", "0", "0">>

\* Pagination has ended (the page served last carried no token) without a
\* single reference.
EmptyPlaylistListed ==
    /\ pagesServed # <<>>
    /\ settled = Fulfilled("playlistItems.list")
    /\ IsNull(nextPageToken)
    /\ CollectedReferences(pagesServed) = <<>>

\* C4: a playlist whose pagination yields no reference, over any number of
\* pages, is answered with a summary, not an error: itemCount 0, totalSeconds
\* 0, "0:00" and "0:00".
C4_EmptyPlaylist ==
    EmptyPlaylistListed =>
        /\ IsSummary
        /\ Value(response).status = 200
        /\ Value(response).error = ""
        /\ TheSummary.videoCount = 0
        /\ TheSummary.totalSeconds = 0
        /\ TheSummary.totalWatchTime = ZeroClock
        /\ TheSummary.averageDuration = ZeroClock

\* No reference over two pages, one of them holding an item without identifier.
C4_Witness ==
    /\ EmptyPlaylistListed
    /\ pagesServed = <<<<>>, <<NoId>>>>
    /\ IsSummary

Called == fn # "none" /\ ~IsNull(result)

CountOf(o) == IF IsNull(o) THEN 0 ELSE Value(o).v

\* C5: a valid encoding PT[nH][nM][nS] with counts H, M, S (0 where the
\* component is absent) parses to H * 3600 + M * 60 + S.
C5_ValidEncodingValue ==
    (fn = "parseISO8601Duration" /\ Called /\ arg.kind = "valid") =>
        Value(result) = CountOf(arg.comps[1]) * 3600
                          + CountOf(arg.comps[2]) * 60
                          + CountOf(arg.comps[3])

\* PT12H09M100S, the minutes written with a leading zero.
C5_Witness ==
    /\ fn = "parseISO8601Duration" /\ Called
    /\ arg.str = <<"P", "T", "1", "2", "H", "0", "9", "M", "1", "0", "0", "S">>
    /\ result = Some(43840)

\* The pattern occurs nowhere in s: all its groups being optional, it occurs
\* wherever the marker letters P and T stand side by side.
PatternAbsent(s) == ~\E i \in 1..Len(s) : i < Len(s) /\ s[i] = "P" /\ s[i + 1] = "T"

\* C6: the empty string and every string the pattern does not match, those
\* with a day component before the time marker among them, parse to 0; the
\* call returns a number for every string.
C6_NonMatchingIsZero ==
    (fn = "parseISO8601Duration" /\ Called) =>
        /\ Value(result) \in Nat
        /\ (arg.str = <<>> \/ PatternAbsent(arg.str)) => Value(result) = 0
        /\ arg.str \in DaySamples => Value(result) = 0

\* P1DT2H3M4S, a day before the time marker.
C6_Witness ==
    /\ fn = "parseISO8601Duration" /\ Called
    /\ arg.str = <<"P", "1", "D", "T", "2", "H", "3", "M", "4", "S">>
    /\ result = Some(0)

\* A decimal number written without padding.
Unpadded(field) == field # <<>> /\ (Len(field) = 1 \/ field[1] # "0")

\* C7: formatDuration(t), t a non-negative integer, is H:MM:SS with H = t div
\* 3600, MM = (t mod 3600) div 60 and SS = t mod 60, both two digits wide, when
\* H > 0, and M:SS with M unpadded and SS two digits wide when H = 0; 0 gives
\* "0:00", 59 "0:59", 303 "5:03" and 3661 "1:01:01".
C7_ClockFormat ==
    (fn = "formatDuration" /\ Called /\ arg[2] = 1) =>
        LET t == arg[1]
            fields == Split(Value(result), ":")
        IN  /\ IF t \div 3600 > 0
               THEN /\ Len(fields) = 3
                    /\ Unpadded(fields[1]) /\ parseInt(fields[1]) = t \div 3600
                    /\ Len(fields[2]) = 2 /\ parseInt(fields[2]) = (t % 3600) \div 60
                    /\ Len(fields[3]) = 2 /\ parseInt(fields[3]) = t % 60
               ELSE /\ Len(fields) = 2
                    /\ Unpadded(fields[1]) /\ parseInt(fields[1]) = t \div 60
                    /\ Len(fields[2]) = 2 /\ parseInt(fields[2]) = t % 60
            /\ \A i \in 1..Len(Value(result)) :
                  Value(result)[i] = ":" \/ IsDigit(Value(result)[i])
            /\ t = 0 => Value(result) = <<"0", ":", "0", "0">>
            /\ t = 59 => Value(result) = <<"0", ":", "5", "9">>
            /\ t = 303 => Value(result) = <<"5", ":", "0", "3">>
            /\ t = 3661 => Value(result) = <<"1", ":", "0", "1", ":", "0", "1">>

\* 303 seconds: the minute of "5:03" is left unpadded.
C7_Witness ==
    /\ fn = "formatDuration" /\ Called
    /\ arg = <<303, 1>>
    /\ result = Some(<<"5", ":", "0", "3">>)

\* Letters, digits, "_" and "-".
IdentifierChars ==
    LowerChars \cup UpperChars \cup {DigitChars[i] : i \in 1..10} \cup {"_", "-"}

\* C8: extractPlaylistId returns the value of the list parameter exactly when
\* the input parses as a URL and the value is non-empty and made of letters,
\* digits, "_" and "-" only; for every other input it returns null.
C8_ExtractExactly ==
    (fn = "extractPlaylistId" /\ Called) =>
        Value(result) =
            IF /\ arg.ok
               /\ ~IsNull(arg.list)
               /\ Value(arg.list) # <<>>
               /\ \A i \in 1..Len(Value(arg.list)) : Value(arg.list)[i] \in IdentifierChars
            THEN arg.list
            ELSE Null

\* https://x/playlist?v=a1&list=Z-&list=! yields Z-, the first value.
C8_Witness ==
    /\ fn = "extractPlaylistId" /\ Called
    /\ arg.str = HttpsScheme \o <<"/", "/", "x">> \o PlaylistPath
                    \o <<"?", "v", "=", "a", "1", "&">> \o ListName \o <<"=", "Z", "-", "&">>
                    \o ListName \o <<"=", "!">>
    /\ result = Some(Some(<<"Z", "-">>))

\* The body carries no playlist URL, or one that is no string, does not parse
\* or has no valid list parameter.
MalformedInput == body.kind \in {"absent", "nonString"}
                    \/ (body.kind = "string" /\ body.playlistUrl # ValidUrl)

InvalidInputMessages ==
    {"Playlist URL is required.", "Invalid YouTube Playlist URL format."}

\* C9: with the access token configured, a malformed or missing playlist URL
\* is answered with invalid-input (status 400) and no call to the catalog
\* service is made.
C9_InvalidInput ==
    (apiKey /\ fn = "none" /\ MalformedInput) =>
        /\ calls = <<>>
        /\ pc \in {"start", "done"}
        /\ Responded => /\ Value(response).status = 400
                        /\ Value(response).error \in InvalidInputMessages
                        /\ ~IsSummary

\* The list value "a!" refused.
C9_Witness ==
    /\ apiKey /\ Responded /\ body.kind = "string"
    /\ body.playlistUrl = HttpsScheme \o <<"/", "/", "x">> \o PlaylistPath
                             \o <<"?">> \o ListName \o <<"=", "a", "!">>
    /\ Value(response) = Error(400, "Invalid YouTube Playlist URL format.")
    /\ calls = <<>>

\* The metadata lookup has failed with the reason playlistNotFound.
MetadataNotFound ==
    /\ ~IsNull(settled)
    /\ Value(settled).api = "playlists.list"
    /\ ~Value(settled).ok
    /\ Value(settled).error.hasError
    /\ Value(settled).error.reasons # <<>>
    /\ Value(settled).error.reasons[1] = "playlistNotFound"

\* C10: when the metadata lookup fails with playlistNotFound, POST returns
\* the not-found error (status 404) at once, with no membership-page request
\* and no detail lookup made.
C10_NotFoundIsFatal ==
    MetadataNotFound =>
        /\ pc = "done"
        /\ Responded
        /\ Value(response).status = 404
        /\ Value(response).error
              = "Playlist not found. Check the URL or playlist privacy settings."
        /\ Len(calls) = 1
        /\ \A i \in 1..Len(calls) :
              calls[i].api \notin {"playlistItems.list", "videos.list"}

C10_Witness ==
    /\ MetadataNotFound
    /\ pc = "done"
    /\ Value(response).status = 404
    /\ calls = <<PlaylistsCall(<<"P", "L", "1", "_", "a">>)>>

\* The reply received last is that of the metadata lookup, and it gave no
\* metadata: the lookup failed for another reason than playlistNotFound, or
\* it returned no items.
MetadataSwallowed ==
    /\ ~IsNull(settled)
    /\ Value(settled).api = "playlists.list"
    /\ IF Value(settled).ok THEN IsNull(playlistDetails) ELSE ~MetadataNotFound

\* The calls of the log made to one method of the catalog service.
CallsTo(api) == SelectSeq(calls, LAMBDA c : c.api = api)

\* The seconds of the resources of one batch reply, 0 for a reply without items.
ReplySeconds(reply) ==
    IF IsNull(reply) THEN 0
    ELSE LET each == [k \in 1..Len(Value(reply)) |-> ParsedDurations[Value(reply)[k]]]
         IN  SumSeq(each, 1, Len(each))

\* The seconds of all the batch replies received.
RepliedSeconds ==
    LET each == [i \in 1..Len(promises) |-> ReplySeconds(promises[i].items)]
    IN  SumSeq(each, 1, Len(each))

\* The summary the pages served and the batch replies determine, the metadata
\* left aside.
AggregateOf(details) ==
    LET count == Len(CollectedReferences(pagesServed))
        total == RepliedSeconds
    IN  Summary(details, count,
                formatDuration(<<total, 1>>),
                IF count > 0 THEN formatDuration(<<total, count>>) ELSE ZeroClock,
                total)

\* C11: a metadata lookup that fails for another reason than playlistNotFound
\* (forbidden, keyInvalid, a quota reason, no reason at all) or returns no
\* items is swallowed: the first membership page is requested, no response is
\* returned for it, and the summary carries the videoCount, totalSeconds,
\* totalWatchTime and averageDuration that the pages and the batch replies
\* determine, whatever the metadata lookup gave, the metadata fields being
\* absent exactly when the lookup gave none.
C11_MetadataFailureSwallowed ==
    /\ MetadataSwallowed =>
          /\ pc = "awaitPlaylistItems"
          /\ ~Responded
          /\ IsNull(playlistDetails)
          /\ calls = <<PlaylistsCall(PlaylistId), PlaylistItemsCall(PlaylistId, Null)>>
    /\ IsSummary =>
          /\ Value(response) = AggregateOf(playlistDetails)
          /\ TheSummary.videoCount > 0 => CallsTo("videos.list") # <<>>

\* A summary without metadata fields: the metadata lookup gave nothing, two
\* pages and one batch lookup followed.
C11_Witness ==
    /\ IsSummary
    /\ IsNull(TheSummary.details)
    /\ pagesServed = <<<<1>>, <<2, 3>>>>
    /\ Len(calls) = 4
    /\ calls[1].api = "playlists.list"
    /\ calls[4] = VideosCall(<<1, 2, 3>>)
    /\ TheSummary.videoCount = 3
    /\ TheSummary.totalSeconds = 3720
    /\ TheSummary.totalWatchTime = <<"1", ":", "0", "2", ":", "0", "0">>
    /\ TheSummary.averageDuration = <<"2", "0", ":", "4", "0">>

\* The classification an error response carries: its status together with
\* the message of the branch that built it; 500 is the generic server error.
Classification(r) ==
    CASE r.status = 400 /\ r.error \in InvalidInputMessages -> "invalid-input"
      [] r.status = 404
            /\ r.error = "Playlist not found. Check the URL or playlist privacy settings."
            -> "not-found"
      [] r.status = 403
            /\ r.error = "Access forbidden. The playlist might be private or deleted."
            -> "forbidden"
      [] r.status = 400 /\ r.error = "Invalid API Key. Please check server configuration."
            -> "invalid-credential"
      [] r.status = 429 /\ r.error = "API Quota Exceeded. Please try again later."
            -> "rate-limited"
      [] r.status = 500 -> "generic-server-error"
      [] OTHER -> "unclassified"

\* The reason code of an upstream failure, "" when it carries none.
ReasonOf(error) ==
    IF error.hasError /\ error.reasons # <<>> THEN error.reasons[1] ELSE ""

QuotaReasons == {"quotaExceeded", "rateLimitExceeded", "userRateLimitExceeded"}

MappedReasons == {"playlistNotFound", "forbidden", "keyInvalid"} \cup QuotaReasons

\* The classification a reason code is mapped to.
MappedClassification(reason) ==
    CASE reason = "playlistNotFound" -> "not-found"
      [] reason = "forbidden" -> "forbidden"
      [] reason = "keyInvalid" -> "invalid-credential"
      [] reason \in QuotaReasons -> "rate-limited"
      [] OTHER -> "generic-server-error"

\* The reply received last is the failure of a membership-page request.
PageFailed ==
    /\ ~IsNull(settled)
    /\ Value(settled).api = "playlistItems.list"
    /\ ~Value(settled).ok

\* C12: when a membership-page request fails, on the first page or on a later
\* one, the invocation ends with an error response, of the classification its
\* reason code is mapped to when the code is a mapped one; no summary is
\* returned for the pages fetched so far and no detail lookup is issued.
C12_PageFailureIsFatal ==
    PageFailed =>
        /\ pc = "done"
        /\ Responded
        /\ ~IsSummary
        /\ Value(response).status >= 400
        /\ Value(response).error # ""
        /\ ReasonOf(Value(settled).error) \in MappedReasons =>
              Classification(Value(response))
                 = MappedClassification(ReasonOf(Value(settled).error))
        /\ CallsTo("videos.list") = <<>>
        /\ promises = <<>>
        /\ Len(CallsTo("playlistItems.list")) = Len(pagesServed) + 1

\* The second page fails with quotaExceeded after three references were
\* collected from the first.
C12_Witness ==
    /\ PageFailed
    /\ pagesServed = <<<<1, 2, 3>>>>
    /\ videoIds = <<1, 2, 3>>
    /\ ReasonOf(Value(settled).error) = "quotaExceeded"
    /\ Value(response) = Error(429, "API Quota Exceeded. Please try again later.")
    /\ Len(calls) = 3

SixClassifications ==
    {"invalid-input", "not-found", "forbidden", "invalid-credential", "rate-limited",
     "generic-server-error"}

IsError == Responded /\ ~IsSummary

\* POST has ended on the failure of an upstream call: the reply received last
\* is a failure, and an error response has been returned for it.
FatalUpstreamFailure == IsError /\ ~IsNull(settled) /\ ~Value(settled).ok

PassedThrough(error) ==
    Error(IF error.status # 0 THEN error.status ELSE 500, "YouTube API Error")

C14_MissingKey ==
    (~apiKey /\ fn = "none") =>
        /\ calls = <<>>
        /\ IsNull(settled)
        /\ pc \in {"start", "done"}
        /\ pc = "done" =>
              /\ Value(response) = Error(500, "Server configuration error: API key missing.")
              /\ Classification(Value(response)) = "generic-server-error"

\* The key missing and the body unreadable: the answer is that of the
\* missing key, before the body is read.
C14_Witness ==
    /\ ~apiKey
    /\ body.kind = "unreadable"
    /\ pc = "done"
    /\ Value(response) = Error(500, "Server configuration error: API key missing.")
    /\ calls = <<>>

PageCalls == CallsTo("playlistItems.list")

VideoCalls == CallsTo("videos.list")

\* ceil(n / 50).
BatchCount(n) == (n + 49) \div 50

\* The k-th of the consecutive slices of 50 of ids, the last one the rest.
Slice(ids, k) ==
    SubSeq(ids, 50 * (k - 1) + 1, IF 50 * k < Len(ids) THEN 50 * k ELSE Len(ids))

\* The reply received last is a failure that is not swallowed.
FatalFailure ==
    /\ ~IsNull(settled)
    /\ ~Value(settled).ok
    /\ Value(settled).api = "playlists.list" => MetadataNotFound

\* C15: no retries. In the call log of an invocation the metadata lookup
\* occurs at most once, no two page requests carry the same continuation
\* token, and the k-th batch lookup is that of the k-th slice of the
\* references, so no batch is looked up twice; a fatal failure is answered by
\* a response with no call issued after the failed stage, and once a response
\* is returned the invocation takes no further step.
C15_NoRetries ==
    /\ Len(CallsTo("playlists.list")) <= 1
    /\ LET pages == PageCalls
       IN  \A i, j \in 1..Len(pages) :
              pages[i].pageToken = pages[j].pageToken => i = j
    /\ LET batches == VideoCalls
       IN  /\ Len(batches) <= BatchCount(Len(videoIds))
           /\ \A k \in 1..Len(batches) : batches[k].id = Slice(videoIds, k)
    /\ FatalFailure =>
          /\ Responded
          /\ ~IsSummary
          /\ Value(settled).api = "playlists.list" => Len(calls) = 1
          /\ Value(settled).api = "playlistItems.list" =>
                /\ Len(PageCalls) = Len(pagesServed) + 1
                /\ VideoCalls = <<>>
          /\ Value(settled).api = "videos.list" =>
                /\ Len(PageCalls) = Len(pagesServed)
                /\ Len(VideoCalls) = Len(promises)
    /\ Responded => pc = "done" /\ ~ENABLED PostStep
    /\ pc = "done" => Responded

\* The third page request fails with the reason forbidden: four calls in
\* all, the tokens of the page requests all different, one response.
C15_Witness ==
    /\ FatalFailure
    /\ Value(settled).api = "playlistItems.list"
    /\ Len(pagesServed) = 2
    /\ Len(calls) = 4
    /\ PageCalls[1].pageToken = Null
    /\ PageCalls[2].pageToken = Some(1)
    /\ PageCalls[3].pageToken = Some(2)
    /\ Value(response) = Error(403, "Access forbidden. The playlist might be private or deleted.")

\* The number of page requests not answered yet.
PagesOutstanding ==
    Len(PageCalls) - Len(pagesServed)
        - (IF ~IsNull(settled) /\ Value(settled).api = "playlistItems.list"
                /\ ~Value(settled).ok
           THEN 1 ELSE 0)

\* C16: pagination is sequential. The first page request carries no token;
\* a page request is outstanding only while POST awaits it, one at a time,
\* and a later one carries the token the page received last came with (the
\* k-th page of the service comes with the token k); every page request is
\* for the playlist of the body; the references collected are those of the
\* pages served, items without identifier left out, in page order.
C16_SequentialPagination ==
    /\ LET pages == PageCalls
       IN  /\ pages # <<>> => pages[1].pageToken = Null
           /\ \A k \in 1..Len(pages) :
                 /\ pages[k].playlistId = PlaylistId
                 /\ k > 1 => pages[k].pageToken = Some(k - 1)
    /\ PagesOutstanding \in {0, 1}
    /\ PagesOutstanding = 1 <=> pc = "awaitPlaylistItems"
    /\ (pc = "awaitPlaylistItems" /\ pagesServed # <<>>) =>
          /\ ~IsNull(nextPageToken)
          /\ calls[Len(calls)] = PlaylistItemsCall(PlaylistId, nextPageToken)
    /\ \A i, j \in 1..Len(calls) :
          (calls[i].api = "playlistItems.list" /\ calls[j].api # "playlistItems.list")
             => (calls[j].api = "playlists.list" <=> j < i)
    /\ videoIds = CollectedReferences(pagesServed)

\* Three pages, the third awaited no longer: the tokens none, 1 and 2, the
\* references those of the pages in their order, the item without identifier
\* left out.
C16_Witness ==
    /\ pagesServed = <<<<2, 3>>, <<NoId, 4, 5>>, <<1>>>>
    /\ videoIds = <<2, 3, 4, 5, 1>>
    /\ Len(PageCalls) = 3
    /\ PageCalls[3] = PlaylistItemsCall(PlaylistId, Some(2))
    /\ pc = "awaitAll"

\* The page received last came without a continuation token.
LastPageServed == pagesServed # <<>> /\ IsNull(nextPageToken)

\* The loop stops at the first page without a token and not before: after
\* such a page no page request is outstanding and none follows; after a page
\* with a token the next page has been requested, and neither a batch lookup
\* nor a summary comes before a page without a token; the metadata lookup
\* answered and not fatal, the first page has been requested.
StopsAtLastPage ==
    /\ LastPageServed =>
          /\ Len(PageCalls) = Len(pagesServed)
          /\ PagesOutstanding = 0
          /\ pc \in {"awaitAll", "done"}
    /\ (pagesServed # <<>> /\ ~IsNull(nextPageToken)) =>
          /\ Len(PageCalls) = Len(pagesServed) + 1
          /\ VideoCalls = <<>>
          /\ ~IsSummary
    /\ (pc = "awaitAll" \/ IsSummary) => LastPageServed
    /\ (~IsNull(settled) /\ Value(settled).api = "playlists.list" /\ ~MetadataNotFound) =>
          Len(PageCalls) = 1

\* C17: the pagination loop requests at least one page and stops exactly at
\* the first page that comes without a continuation token, no page being
\* requested after it; and when every call issued settles and the service
\* ends the listing with such a page (within MaxPages pages), an invocation
\* that has started pagination returns a response.
C17_PaginationTerminates ==
    /\ []StopsAtLastPage
    /\ (pc \in {"awaitPlaylistItems", "awaitAll"}) ~> Responded

\* The listing ended by its third page, three page requests made, the
\* response returned.
C17_Witness ==
    /\ LastPageServed
    /\ Len(pagesServed) = 3
    /\ Len(PageCalls) = 3
    /\ PageCalls[3].pageToken = Some(2)
    /\ Responded

\* C18: once the last membership page is received, n references collected,
\* the log holds exactly ceil(n / 50) batch requests, none for n = 0; the
\* k-th is the k-th consecutive slice of the references, of 50 identifiers
\* but for a shorter last one, none empty; each starts at the position where
\* the one before ended and together they hold n identifiers, so that every
\* position of the list is in exactly one of them; before the last page is
\* received the log holds no batch request, and all of them follow the last
\* page request.
C18_BatchPartition ==
    LET n       == Len(videoIds)
        batches == VideoCalls
        m       == Len(batches)
        lens    == [k \in 1..m |-> Len(batches[k].id)]
        start   == [k \in 1..m |-> SumSeq(lens, 1, k - 1)]
    IN  /\ ~LastPageServed => m = 0
        /\ LastPageServed =>
              /\ m = BatchCount(n)
              /\ n = 0 => m = 0
              /\ \A k \in 1..m :
                    /\ batches[k].id = Slice(videoIds, k)
                    /\ batches[k].id = SubSeq(videoIds, start[k] + 1, start[k] + lens[k])
                    /\ lens[k] >= 1
                    /\ lens[k] <= 50
                    /\ k < m => lens[k] = 50
              /\ SumSeq(lens, 1, m) = n
        /\ \A i, j \in 1..Len(calls) :
              (calls[i].api = "videos.list" /\ calls[j].api # "videos.list") => j < i

\* 101 references over three pages: three batch requests, of 50, 50 and 1
\* identifiers.
C18_Witness ==
    /\ LastPageServed
    /\ Len(videoIds) = 101
    /\ Len(VideoCalls) = 3
    /\ Len(VideoCalls[1].id) = 50
    /\ Len(VideoCalls[2].id) = 50
    /\ VideoCalls[3].id = <<1>>

BatchFailed == \E i \in 1..Len(promises) : promises[i].state = "rejected"

\* C19: a summary for a playlist with references is returned only when every
\* batch lookup issued has been answered successfully; while one is still
\* pending nothing is returned; and when a batch lookup fails POST ends with
\* the error response of that failure, the replies of the other batches
\* summed into nothing.
C19_FailFastJoin ==
    /\ (IsSummary /\ TheSummary.videoCount > 0) =>
          /\ AllFulfilled
          /\ Len(promises) = Len(VideoCalls)
          /\ Len(promises) = BatchCount(TheSummary.videoCount)
    /\ pc = "awaitAll" =>
          /\ ~Responded
          /\ \E i \in 1..Len(promises) : promises[i].state = "pending"
          /\ ~BatchFailed
    /\ BatchFailed =>
          /\ pc = "done"
          /\ IsError
          /\ Value(response).status >= 400
          /\ Value(settled).api = "videos.list" /\ ~Value(settled).ok
          /\ ReasonOf(Value(settled).error) \in MappedReasons =>
                Classification(Value(response))
                   = MappedClassification(ReasonOf(Value(settled).error))
          /\ totalSeconds = 0
          /\ IsNull(averageSeconds)

\* Two batches, of 50 references and of one: the first answered with its 50
\* resources, the second failing for the quota; the answer is rate-limited.
C19_Witness ==
    /\ Len(promises) = 2
    /\ promises[1].state = "fulfilled"
    /\ ReplySeconds(promises[1].items) > 0
    /\ promises[2].state = "rejected"
    /\ Value(response) = Error(429, "API Quota Exceeded. Please try again later.")

\* The orders in which m lookups can complete: order[k] is the lookup that
\* completes k-th.
Orders(m) ==
    {order \in [1..m -> 1..m] : \A a, b \in 1..m : order[a] = order[b] => a = b}

\* The orders of up to MaxPages lookups (a page gives one batch at most),
\* tabulated.
OrdersOf == [m \in 0..MaxPages |-> Orders(m)]

\* C20: when every batch lookup is answered, the summary is that of the
\* replies whatever the order of their completion: for every order, the
\* seconds of the replies added up in that order give the totalSeconds
\* returned, and videoCount, totalWatchTime and averageDuration are those of
\* the references and of that total.
C20_OrderIndependent ==
    (IsSummary /\ AllFulfilled) =>
        LET m     == Len(promises)
            secs  == [i \in 1..m |-> ReplySeconds(promises[i].items)]
            count == Len(videoIds)
            total == TheSummary.totalSeconds
        IN  /\ \A order \in OrdersOf[m] :
                  SumSeq([k \in 1..m |-> secs[order[k]]], 1, m) = total
            /\ TheSummary.videoCount = count
            /\ TheSummary.totalWatchTime = formatDuration(<<total, 1>>)
            /\ TheSummary.averageDuration = formatDuration(<<total, count>>)
            /\ totalSeconds = total

\* Two batches with different replies, 50 resources of 91500 s in all and
\* three of 3720 s: the summary of 95220 s, whichever was answered first.
C20_Witness ==
    /\ IsSummary
    /\ Len(promises) = 2
    /\ AllFulfilled
    /\ ReplySeconds(promises[1].items) = 91500
    /\ ReplySeconds(promises[2].items) = 3720
    /\ TheSummary.videoCount = 53
    /\ TheSummary.totalSeconds = 95220

\* The batch lookups that have failed.
FailedBatches == {i \in 1..Len(promises) : promises[i].state = "rejected"}

\* C21: when several batch lookups fail, the error response is the one
\* mapped from the lookup that failed first in time, whatever its position in
\* the list: the step in which the first lookup fails answers with the error
\* response of that failure and sums nothing, and no later step, a second
\* failure or a late reply, changes the response or adds to the total.
C21_FirstFailureWins ==
    [][ /\ \A i \in 1..Len(promises) :
              (promises[i].state = "pending" /\ promises'[i].state = "rejected") =>
                  IF FailedBatches = {}
                    THEN /\ response' = Some(ErrorResponse(promises'[i].error))
                         /\ totalSeconds' = 0
                         /\ IsNull(averageSeconds')
                         /\ pc' = "done"
                    ELSE UNCHANGED <<response, totalSeconds, averageSeconds, pc>>
        /\ FailedBatches # {} =>
              UNCHANGED <<response, totalSeconds, averageSeconds, pc, calls>>
      ]_vars

\* Two batches, both failed, and differently: the first for want of any
\* reply, the second for the quota. The answer is the rate-limited one, that
\* of the second batch, which therefore failed first.
C21_Witness ==
    /\ Len(promises) = 2
    /\ FailedBatches = {1, 2}
    /\ ~promises[1].error.hasError
    /\ promises[2].error.reasons = <<"quotaExceeded">>
    /\ Responded
    /\ Value(response).status = 429
    /\ Value(response) = ErrorResponse(promises[2].error)
    /\ Value(response) # ErrorResponse(promises[1].error)

\* C22: formatting an average floors it consistently: for totalSeconds >= 0
\* and itemCount >= 1, formatDuration of the quotient totalSeconds / itemCount
\* is the string formatDuration gives for floor(totalSeconds / itemCount), and
\* the clock it writes stands for exactly that many seconds: only the
\* fraction of a second is dropped, no field is off by one.
C22_AverageFlooredConsistently ==
    (fn = "formatDuration" /\ ~IsNull(result)) =>
        LET total   == arg[1]
            count   == arg[2]
            floored == total \div count
        IN  /\ Value(result) = formatDuration(<<floored, 1>>)
            /\ ClockSeconds(Value(result)) = floored
            /\ LET fields == Split(Value(result), ":")
                   n      == Len(fields)
               IN  /\ parseInt(fields[n]) = floored % 60
                   /\ parseInt(fields[n - 1]) = (floored \div 60) % 60
                   /\ IF floored >= 3600
                      THEN n = 3 /\ parseInt(fields[1]) = floored \div 3600
                      ELSE n = 2

\* 7199 seconds over 2 items, 3599.5 s, half a second short of an hour and
\* of a minute: formatted as 59:59.
C22_Witness ==
    /\ fn = "formatDuration"
    /\ arg = <<7199, 2>>
    /\ arg[1] % arg[2] # 0
    /\ result = Some(<<"5", "9", ":", "5", "9">>)

\* A run of handleSubmit is suspended at an await.
RunInFlight == run.pc # "idle"

\* The message of the client-side validation, page.tsx 116.
ValidationMessage ==
    "Invalid YouTube Playlist URL format. Please include 'youtube.com/playlist?list='."

\* C23: every run of handleSubmit ends with loading = false, whether it ends
\* at the client-side validation, with a network failure, with a response
\* that is not ok or with one that is; results and error are both cleared
\* when the run starts and stay so until it ends; and in no reachable state
\* are results and error both set. (loading is true exactly while a run is
\* suspended at an await.)
C23_SubmitEndsIdleAndExclusive ==
    /\ [](/\ ~(~IsNull(home.results) /\ ~IsNull(home.error))
          /\ home.loading <=> RunInFlight
          /\ RunInFlight => IsNull(home.results) /\ IsNull(home.error))
    /\ [][ /\ (~RunInFlight /\ RunInFlight') =>
                 /\ IsNull(home'.results) /\ IsNull(home'.error)
                 /\ home'.loading
           /\ (RunInFlight /\ ~RunInFlight') =>
                 /\ ~home'.loading
                 /\ IF Ok(run.response) /\ run.response.body = "json"
                    THEN home'.results = Some(run.response.data) /\ IsNull(home'.error)
                    ELSE IsNull(home'.results)
                 /\ (~Ok(run.response) \/ run.response.body = "notJson") =>
                       ~IsNull(home'.error)
           /\ (~RunInFlight /\ ~RunInFlight' /\ home'.playlistUrl = home.playlistUrl
                  /\ home' # home) =>
                 /\ ~home'.loading
                 /\ IsNull(home'.results)
                 /\ home'.error = Some(ValidationMessage)
         ]_vars

\* A run for a playlist URL has ended with a response that was not ok, the
\* quota being exhausted: loading is false, the error is the message of the
\* response and there are no results.
C23_Witness ==
    /\ ~RunInFlight
    /\ includes(home.playlistUrl, PlaylistMarker)
    /\ ~home.loading
    /\ home.error = Some("API Quota Exceeded. Please try again later.")
    /\ IsNull(home.results)

====
